---- MODULE Spec2Model ----
(***************************************************************************)
(* A model of ytmp3's main.py: the single-item download pipeline           *)
(* (download_youtube_audio), the playlist loop (download_youtube_playlist),*)
(* the base-name heuristic, the metadata fallbacks, the file-name based    *)
(* metadata inference (add_metadata_to_existing_files) and the progress    *)
(* hook (my_hook).                                                         *)
(*                                                                         *)
(* Text is modelled as a sequence of one-character strings.  The external  *)
(* engine (yt_dlp) and the tagging library (mutagen) are black boxes whose *)
(* outcomes (return or raise) are nondeterministic choices.                *)
(***************************************************************************)
EXTENDS Integers, Sequences, FiniteSets

VARIABLES
    \* ---- download_youtube_audio / download_youtube_playlist ----
    mode,        \* "single": one download_youtube_audio call; "playlist"
    entries,     \* playlist_info['entries'] as the flat listing returns it
    pathOf,      \* video id -> output path derived for it (lines 141-145, 171)
    idx,         \* the loop's position i (0: entries not yet extracted)
    pc,          \* the position in the code
    url,         \* the url argument of the running download_youtube_audio
    successful,  \* the playlist's success counter
    pbar,        \* the playlist bar's count of entries done (pbar.update)
    ret,         \* what download_youtube_playlist returned
    audioRet,    \* how the last download_youtube_audio call ended
    tagOK,       \* what set_mp3_metadata returned for the current item
    engine,      \* state of the current item's ydl.download call
    calls,       \* history: the urls passed to download_youtube_audio
    log,         \* history: <<entry index, step>> of every pipeline step
    tagged,      \* history: path -> number of tag writes saved to it
    \* ---- base name heuristic ----
    title, artist, base,
    \* ---- metadata fallbacks ----
    info, metadata,
    \* ---- add_metadata_to_existing_files ----
    root, mp3_file, inferred,
    \* ---- my_hook ----
    progress,    \* the tqdm bar: its n (a fraction <<num, den>>) and postfix
    hookStatus,  \* the status of the last event given to my_hook
    hookCalls    \* the number of events given to my_hook

pipeVars == <<mode, entries, pathOf, idx, pc, url, successful, pbar, ret,
              audioRet, tagOK, engine, calls, log, tagged>>
nameVars == <<title, artist, base>>
metaVars == <<info, metadata>>
inferVars == <<root, mp3_file, inferred>>
hookVars == <<progress, hookStatus, hookCalls>>
vars == <<pipeVars, nameVars, metaVars, inferVars, hookVars>>
notPipe == <<nameVars, metaVars, inferVars, hookVars>>

\* The parts of the state a specification does not use stay at these values.
PipeIdle ==
    /\ mode = "off" /\ entries = <<>> /\ pathOf = <<>> /\ idx = 0
    /\ pc = "off" /\ url = <<>> /\ successful = 0 /\ pbar = 0 /\ ret = "none"
    /\ audioRet = "none" /\ tagOK = "none" /\ engine = "idle"
    /\ calls = <<>> /\ log = <<>> /\ tagged = <<>>
NameIdle ==
    title = <<>> /\ artist = <<>> /\ base = [done |-> FALSE, text |-> <<>>]
MetaIdle == info = [has |-> {}] /\ metadata = [done |-> FALSE]
InferIdle == root = <<>> /\ mp3_file = <<>> /\ inferred = [done |-> FALSE]
HookIdle ==
    /\ progress = [n |-> <<0, 1>>, postfix |-> "none"]
    /\ hookStatus = "off" /\ hookCalls = 0

(***************************************************************************)
(* The pipeline: download_youtube_audio and download_youtube_playlist      *)
(***************************************************************************)
MaxEntries == 3

Videos == {"v1", "v2"}
Paths == {"p1", "p2"}

\* The constant prefix of lines 227 and 229; a url is <<WatchPrefix, id>>,
\* a bare id is <<id>>.
WatchPrefix == "https://www.youtube.com/watch?v="

\* entry is None: an entry the flat listing could not extract
NoneEntry == [none |-> TRUE]

\* The shapes of a playlist entry: None, a full url, a bare id under 'url',
\* an 'id' only, or neither key.
EntryShapes ==
    {NoneEntry, [title |-> <<"t">>]}
    \cup {[url |-> <<WatchPrefix, v>>] : v \in Videos}
    \cup {[url |-> <<v>>] : v \in Videos}
    \cup {[id |-> <<v>>] : v \in Videos}

SeqsUpTo(S, n) == UNION {[1..k -> S] : k \in 0..n}

IsNone(entry) == "none" \in DOMAIN entry

\* video_url.startswith('http')
StartsWithHttp(u) == Len(u) > 0 /\ Head(u) = WatchPrefix

\* Whether lines 224-229 find a url for the entry
Resolvable(entry) ==
    ~IsNone(entry) /\ ("url" \in DOMAIN entry \/ "id" \in DOMAIN entry)

\* Lines 224-229: the video url of a resolvable entry
VideoUrl(entry) ==
    IF "url" \in DOMAIN entry
    THEN IF StartsWithHttp(entry.url) THEN entry.url
         ELSE <<WatchPrefix>> \o entry.url
    ELSE <<WatchPrefix>> \o entry.id

\* The video a url names (what the engine resolves it to)
VideoOf(u) == u[Len(u)]

\* Line 171: os.path.join(output_path, final_filename) of the current item
Mp3Path == pathOf[VideoOf(url)]

\* The output paths lines 141-145 derive for the videos: two videos have
\* different base names or the same one (the names of the paths are
\* interchangeable, so the first video's is fixed).
PathMaps == {f \in [Videos -> Paths] : f["v1"] = "p1"}

InitPipe ==
    /\ mode \in {"single", "playlist"}
    /\ pathOf \in PathMaps
    /\ IF mode = "playlist"
       THEN /\ entries \in SeqsUpTo(EntryShapes, MaxEntries)
            /\ url = <<>>
            /\ pc = "pl_extract"
       ELSE /\ entries = <<>>
            /\ url \in {<<WatchPrefix, v>> : v \in Videos}
            /\ pc = "probe"
    /\ idx = 0
    /\ successful = 0
    /\ pbar = 0
    /\ ret = "none"
    /\ audioRet = "none"
    /\ tagOK = "none"
    /\ engine = "idle"
    /\ calls = IF mode = "single" THEN <<url>> ELSE <<>>
    /\ log = <<>>
    /\ tagged = [p \in Paths |-> 0]

\* Lines 198-204 and 246-248: the flat listing raises, finds no entries, or
\* gives the entries.
PlaylistExtract ==
    /\ pc = "pl_extract"
    /\ \E raised \in BOOLEAN :
         IF raised \/ entries = <<>>
         THEN /\ ret' = "False"
              /\ pc' = "done"
              /\ idx' = idx
         ELSE /\ idx' = 1
              /\ pc' = "loop"
              /\ ret' = ret
    /\ UNCHANGED <<notPipe, pbar, mode, entries, pathOf, url, successful,
                   audioRet, tagOK, engine, calls, log, tagged>>

\* Lines 220-221: a None entry is passed over
LoopSkipNone ==
    /\ pc = "loop"
    /\ idx <= Len(entries)
    /\ IsNone(entries[idx])
    /\ idx' = idx + 1
    /\ UNCHANGED <<notPipe, pbar, mode, entries, pathOf, pc, url, successful,
                   ret, audioRet, tagOK, engine, calls, log, tagged>>

\* Lines 230-233: an entry with neither 'url' nor 'id' is skipped
LoopSkipNoUrl ==
    /\ pc = "loop"
    /\ idx <= Len(entries)
    /\ ~IsNone(entries[idx])
    /\ ~Resolvable(entries[idx])
    /\ idx' = idx + 1
    /\ pbar' = pbar + 1
    /\ UNCHANGED <<notPipe, mode, entries, pathOf, pc, url, successful, ret,
                   audioRet, tagOK, engine, calls, log, tagged>>

\* Lines 224-238: the entry's url is passed to download_youtube_audio
LoopCall ==
    /\ pc = "loop"
    /\ idx <= Len(entries)
    /\ Resolvable(entries[idx])
    /\ url' = VideoUrl(entries[idx])
    /\ calls' = Append(calls, url')
    /\ pc' = "probe"
    /\ audioRet' = "none"
    /\ tagOK' = "none"
    /\ engine' = "idle"
    /\ UNCHANGED <<notPipe, pbar, mode, entries, pathOf, idx, successful, ret,
                   log, tagged>>

\* Lines 243-244: the loop is over
LoopExit ==
    /\ pc = "loop"
    /\ idx > Len(entries)
    /\ ret' = IF successful > 0 THEN "True" ELSE "False"
    /\ pc' = "done"
    /\ UNCHANGED <<notPipe, pbar, mode, entries, pathOf, idx, url, successful,
                   audioRet, tagOK, engine, calls, log, tagged>>

\* An exception leaves download_youtube_audio (lines 100-145 are in no try
\* block).  In a playlist the handler of lines 246-248 catches it.
Propagate ==
    /\ audioRet' = "raised"
    /\ pc' = "done"
    /\ ret' = IF mode = "playlist" THEN "False" ELSE ret

\* Lines 100-101: the metadata-only probe returns or raises
Probe ==
    /\ pc = "probe"
    /\ log' = Append(log, <<idx, "probe">>)
    /\ \E raised \in BOOLEAN :
         IF raised
         THEN Propagate
         ELSE pc' = "derive" /\ UNCHANGED <<audioRet, ret>>
    /\ UNCHANGED <<notPipe, pbar, mode, entries, pathOf, idx, url, successful,
                   tagOK, engine, calls, tagged>>

\* Lines 104-145: the metadata record and the file name are derived; a field
\* of an unexpected type (a None title, an empty thumbnails list) raises.
Derive ==
    /\ pc = "derive"
    /\ log' = Append(log, <<idx, "derive">>)
    /\ \E raised \in BOOLEAN :
         IF raised
         THEN Propagate
         ELSE pc' = "download" /\ UNCHANGED <<audioRet, ret>>
    /\ UNCHANGED <<notPipe, pbar, mode, entries, pathOf, idx, url, successful,
                   tagOK, engine, calls, tagged>>

\* Lines 163-168: the engine's download/transcode call begins
DownloadStart ==
    /\ pc = "download"
    /\ engine' = "running"
    /\ pc' = "downloading"
    /\ log' = Append(log, <<idx, "dl_start">>)
    /\ UNCHANGED <<notPipe, pbar, mode, entries, pathOf, idx, url, successful,
                   ret, audioRet, tagOK, calls, tagged>>

\* Line 168 returns: control goes on to line 171
DownloadReturn ==
    /\ pc = "downloading"
    /\ engine' = "returned"
    /\ pc' = "tag"
    /\ log' = Append(log, <<idx, "dl_return">>)
    /\ UNCHANGED <<notPipe, pbar, mode, entries, pathOf, idx, url, successful,
                   ret, audioRet, tagOK, calls, tagged>>

\* DownloadRaise with the exception swallowed around line 168 only, so that
\* control falls through to the metadata write.
DownloadRaiseFallsThrough ==
    /\ pc = "downloading"
    /\ engine' = "raised"
    /\ pc' = "tag"
    /\ log' = Append(log, <<idx, "dl_raise">>)
    /\ UNCHANGED <<notPipe, pbar, mode, entries, pathOf, idx, url, successful,
                   ret, audioRet, tagOK, calls, tagged>>

\* Line 168 raises: lines 179-181 return False
DownloadRaise ==
    /\ pc = "downloading"
    /\ engine' = "raised"
    /\ audioRet' = "False"
    /\ pc' = "audio_ret"
    /\ log' = Append(log, <<idx, "dl_raise">>)
    /\ UNCHANGED <<notPipe, pbar, mode, entries, pathOf, idx, url, successful,
                   ret, tagOK, calls, tagged>>

\* Lines 170-178: set_mp3_metadata is called on the mp3 path; it saves the
\* tags and returns True, or returns False (lines 67-73, it never raises),
\* and the result is dropped.
Tag ==
    /\ pc = "tag"
    /\ \E ok \in {"True", "False"} :
         /\ tagOK' = ok
         /\ tagged' = IF ok = "True"
                      THEN [tagged EXCEPT ![Mp3Path] = @ + 1]
                      ELSE tagged
    /\ log' = Append(log, <<idx, "tag">>)
    /\ audioRet' = "True"
    /\ pc' = "audio_ret"
    /\ UNCHANGED <<notPipe, pbar, mode, entries, pathOf, idx, url, successful,
                   ret, engine, calls>>

\* download_youtube_audio has returned: lines 238-241 in a playlist
AudioReturn ==
    /\ pc = "audio_ret"
    /\ IF mode = "playlist"
       THEN /\ successful' = IF audioRet = "True" THEN successful + 1
                             ELSE successful
            /\ idx' = idx + 1
            /\ pbar' = pbar + 1
            /\ pc' = "loop"
       ELSE /\ pc' = "done"
            /\ UNCHANGED <<successful, idx, pbar>>
    /\ UNCHANGED <<notPipe, mode, entries, pathOf, url, ret, audioRet, tagOK,
                   engine, calls, log, tagged>>

Init == InitPipe /\ NameIdle /\ MetaIdle /\ InferIdle /\ HookIdle

Next ==
    \/ PlaylistExtract
    \/ LoopSkipNone
    \/ LoopSkipNoUrl
    \/ LoopCall
    \/ LoopExit
    \/ Probe
    \/ Derive
    \/ DownloadStart
    \/ DownloadReturn
    \/ DownloadRaise
    \/ Tag
    \/ AudioReturn

Spec == Init /\ [][Next]_vars

(***************************************************************************)
(* Properties of the pipeline                                              *)
(***************************************************************************)
\* The entry indices whose download/transcode call returned without raising
Downloaded == {log[k][1] : k \in {j \in 1..Len(log) : log[j][2] = "dl_return"}}

\* The urls the loop owes a download_youtube_audio call, in playlist order
RECURSIVE ResolvableUrls(_)
ResolvableUrls(es) ==
    IF es = <<>> THEN <<>>
    ELSE IF Resolvable(Head(es))
         THEN <<VideoUrl(Head(es))>> \o ResolvableUrls(Tail(es))
         ELSE ResolvableUrls(Tail(es))

\* C1: no exception of an item's pipeline (probe, file-name derivation,
\* download/transcode, metadata write) leaves download_youtube_audio: the call
\* always returns, and returns False when an exception occurred.
C1_NeverPropagates == audioRet # "raised"

\* C2: a failing entry never stops the playlist loop: when the playlist
\* function has ended after listing its entries, every non-None entry that
\* resolves to a url was passed to download_youtube_audio, in playlist order.
C2_EveryEntryAttempted ==
    (mode = "playlist" /\ pc = "done" /\ idx >= 1)
        => calls = ResolvableUrls(entries)

\* C3: download_youtube_playlist returns True if and only if at least one
\* entry was downloaded successfully, whatever happened to the other entries.
C3_TrueIffSomeSuccess ==
    (mode = "playlist" /\ pc = "done")
        => ((ret = "True") <=> (Downloaded # {}))

\* C4: an item whose download/transcode succeeded and whose metadata write
\* failed is counted as failed: download_youtube_audio does not return True.
C4_TagFailureIsFailure ==
    (pc = "audio_ret" /\ tagOK = "False") => audioRet # "True"

\* C6: over a whole run every output file path has a metadata record applied
\* to it at most once.
C6_TaggedAtMostOnce == \A p \in DOMAIN tagged : tagged[p] <= 1

\* C5: the steps of one item occur in the order probe, (derivation,)
\* download/transcode, metadata write; set_mp3_metadata is invoked only right
\* after the item's download/transcode call returned without raising, never
\* while it runs and never when it raised; and the first step of the next
\* entry comes only after the previous entry's pipeline has ended.
C5_PipelineOrder ==
    /\ tagOK # "none" => engine = "returned"
    /\ engine = "running" => pc = "downloading"
    /\ \A k \in 1..Len(log) :
         LET i == log[k][1]
             step == log[k][2]
             prev == IF k = 1 THEN <<-1, "nothing">> ELSE log[k - 1]
         IN /\ step = "tag" => prev = <<i, "dl_return">>
            /\ step \in {"dl_return", "dl_raise"} => prev = <<i, "dl_start">>
            /\ step = "dl_start" => prev = <<i, "derive">>
            /\ step = "derive" => prev = <<i, "probe">>
            /\ step = "probe" =>
                 \/ k = 1
                 \/ prev[1] < i /\ prev[2] \in {"tag", "dl_raise"}

\* C5 witness: two entries of a playlist were tagged one after the other, and
\* an entry in between or before had its download raise.
C5_Witness ==
    /\ mode = "playlist"
    /\ \E j, k \in 1..Len(log) :
         /\ j < k
         /\ log[j][2] = "tag" /\ log[k][2] = "tag"
         /\ log[j][1] < log[k][1]
    /\ \E k \in 1..Len(log) : log[k][2] = "dl_raise"

(***************************************************************************)
(* The base name of the output file (lines 123-139)                        *)
(***************************************************************************)
MaxTitleLen == 3
MaxArtistLen == 2

\* The characters titles and artists are drawn from: a letter in both cases,
\* a space, a tab (whitespace that is not a space) and a dash.
NameChars == {"a", "A", " ", "\t", "-"}

\* What str.split() and str.strip() treat as whitespace
Whitespace == {" ", "\t"}

\* str.lower(), one character
LowerChar(c) == CASE c = "A" -> "a" [] c = "M" -> "m" [] c = "P" -> "p"
                  [] OTHER -> c

\* str.lower()
Lower(s) == [k \in 1..Len(s) |-> LowerChar(s[k])]

\* s.replace(" ", "")
RECURSIVE RemoveSpaces(_)
RemoveSpaces(s) ==
    IF s = <<>> THEN <<>>
    ELSE IF Head(s) = " " THEN RemoveSpaces(Tail(s))
         ELSE <<Head(s)>> \o RemoveSpaces(Tail(s))

\* x in y, for strings
IsSubstr(x, y) ==
    \E k \in 0..(Len(y) - Len(x)) : SubSeq(y, k + 1, k + Len(x)) = x

\* str.split() without arguments: the maximal runs of non-whitespace; cur is
\* the run being read.
RECURSIVE SplitFrom(_, _)
SplitFrom(s, cur) ==
    IF s = <<>>
    THEN IF cur = <<>> THEN <<>> ELSE <<cur>>
    ELSE IF Head(s) \in Whitespace
         THEN IF cur = <<>> THEN SplitFrom(Tail(s), <<>>)
              ELSE <<cur>> \o SplitFrom(Tail(s), <<>>)
         ELSE SplitFrom(Tail(s), Append(cur, Head(s)))

SplitWhitespace(s) == SplitFrom(s, <<>>)

\* Lines 124-125
CleanName(s) == RemoveSpaces(Lower(s))

\* Lines 124-131: artist_in_title
ArtistInTitle(a, t) ==
    LET clean_artist == CleanName(a)
        clean_title == CleanName(t)
        parts == SplitWhitespace(clean_artist)
    IN \/ IsSubstr(clean_artist, clean_title)
       \/ \E k \in 1..Len(parts) : IsSubstr(parts[k], clean_title)

\* " - "
Dash == <<" ", "-", " ">>

\* BaseName with a title that already has the dash form kept as it is
BaseNameTrustsDash(a, t) ==
    IF IsSubstr(Dash, t) /\ ~ArtistInTitle(a, t) THEN t
    ELSE IF ArtistInTitle(a, t) THEN t
    ELSE a \o Dash \o t

\* Lines 133-139: base
BaseName(a, t) ==
    IF IsSubstr(Dash, t) /\ ~ArtistInTitle(a, t) THEN a \o Dash \o t
    ELSE IF ArtistInTitle(a, t) THEN t
    ELSE a \o Dash \o t

InitName ==
    /\ title \in SeqsUpTo(NameChars, MaxTitleLen)
    /\ artist \in SeqsUpTo(NameChars, MaxArtistLen)
    /\ base = [done |-> FALSE, text |-> <<>>]
    /\ PipeIdle /\ MetaIdle /\ InferIdle /\ HookIdle

\* Lines 123-139 on the probed title and artist
DeriveBaseName ==
    /\ ~base.done
    /\ base' = [done |-> TRUE, text |-> BaseName(artist, title)]
    /\ UNCHANGED <<pipeVars, metaVars, inferVars, hookVars, title, artist>>

NextName == DeriveBaseName

SpecName == InitName /\ [][NextName]_vars

\* C7 as stated: the base name is the title alone exactly when the
\* lower-cased, space-stripped artist is a substring of the lower-cased,
\* space-stripped title, and "{artist} - {title}" in every other case.
C7_TitleAloneIffSubstring ==
    base.done =>
        base.text = IF IsSubstr(CleanName(artist), CleanName(title))
                    THEN title
                    ELSE artist \o Dash \o title

\* A whitespace-delimited token of s that occurs in t: a non-empty stretch of
\* s without whitespace, with whitespace or an end of s on both sides.
TokenOccursIn(s, t) ==
    \E i \in 1..Len(s) : \E j \in i..Len(s) :
        /\ \A k \in i..j : s[k] \notin Whitespace
        /\ i = 1 \/ s[i - 1] \in Whitespace
        /\ j = Len(s) \/ s[j + 1] \in Whitespace
        /\ IsSubstr(SubSeq(s, i, j), t)

\* C7 (amended): the base name is the title alone exactly when the
\* lower-cased, space-stripped artist is a substring of the lower-cased,
\* space-stripped title or one of its whitespace-delimited tokens is, and
\* "{artist} - {title}" in every other case, whether or not the title holds
\* " - "; casing and spacing of title and artist are kept.
C7_TitleAloneIffSubstringOrToken ==
    base.done =>
        LET ca == RemoveSpaces(Lower(artist))
            ct == RemoveSpaces(Lower(title))
        IN base.text = IF IsSubstr(ca, ct) \/ TokenOccursIn(ca, ct)
                       THEN title
                       ELSE artist \o Dash \o title

\* C7 witness: a title with " - " in it and an artist that is absent from it
\* was given the name "{artist} - {title}", the artist in its original casing.
C7_Witness ==
    /\ base.done
    /\ IsSubstr(Dash, title)
    /\ artist # <<>> /\ Lower(artist) # artist
    /\ base.text = artist \o Dash \o title

(***************************************************************************)
(* The metadata record built from the probe result (lines 104-121)         *)
(***************************************************************************)
\* The provider fields the record's album, year and genre are read from.
\* info.has holds the keys present in the probe result; a present key may
\* hold an empty (falsy) value.
InfoKeys == {"album", "playlist_title", "release_year", "upload_date",
             "genre", "categories"}

YearValues == {<<>>, <<"2", "0", "2", "0">>}
DateValues == {<<>>, <<"2", "0", "1", "9", "0", "1", "0", "2">>,
               <<"2", "0", "1">>}
GenreValues == {<<>>, <<"R", "o", "c", "k">>}
CategoryValues == {<<>>, <<<<"E", "d", "u">>>>,
                   <<<<"F", "i", "l", "m">>, <<"E", "d", "u">>>>}
AlbumValues == {<<>>, <<"L", "P">>}
PlaylistValues == {<<>>, <<"M", "i", "x">>}

\* The constants of lines 106 and 108
YouTubeMusic == <<"Y", "o", "u", "T", "u", "b", "e", " ", "M", "u", "s", "i", "c">>
Music == <<"M", "u", "s", "i", "c">>

\* The probe results: every subset of the keys, every value of a key present
InfoSet ==
    {i \in [has : SUBSET InfoKeys, album : AlbumValues,
            playlist_title : PlaylistValues, release_year : YearValues,
            upload_date : DateValues, genre : GenreValues,
            categories : CategoryValues] :
        \A k \in InfoKeys \ i.has : i[k] = <<>>}

\* info.get(key, default)
Get(i, key, default) == IF key \in i.has THEN i[key] ELSE default

\* Python's truth value of a string or a list
Truthy(v) == v # <<>>

\* x or y
Or(x, y) == IF Truthy(x) THEN x ELSE y

\* s[:n]
Prefix(s, n) == SubSeq(s, 1, IF Len(s) < n THEN Len(s) ELSE n)

\* Line 106
Album(i) == Or(Or(Get(i, "album", <<>>), Get(i, "playlist_title", <<>>)),
               YouTubeMusic)

\* Line 107: "A or B[:4] if C else ''" is "(A or B[:4]) if C else ''"
ReleaseYear(i) ==
    IF Truthy(Get(i, "upload_date", <<>>))
    THEN Or(Get(i, "release_year", <<>>), Prefix(Get(i, "upload_date", <<>>), 4))
    ELSE <<>>

\* Line 108: "A or B[0] if C else 'Music'" is "(A or B[0]) if C else 'Music'"
Genre(i) ==
    IF Truthy(Get(i, "categories", <<>>))
    THEN Or(Get(i, "genre", <<>>), Get(i, "categories", <<Music>>)[1])
    ELSE Music

InitMeta ==
    /\ info \in InfoSet
    /\ metadata = [done |-> FALSE]
    /\ PipeIdle /\ NameIdle /\ InferIdle /\ HookIdle

\* Lines 104-121: the metadata dictionary
BuildMetadata ==
    /\ ~metadata.done
    /\ metadata' = [done |-> TRUE, album |-> Album(info),
                    year |-> ReleaseYear(info), genre |-> Genre(info)]
    /\ UNCHANGED <<pipeVars, nameVars, inferVars, hookVars, info>>

NextMeta == BuildMetadata

SpecMeta == InitMeta /\ [][NextMeta]_vars

\* C8: an explicit provider value wins over its fallbacks: a non-empty
\* explicit release year is the record's year whether or not an upload date
\* is present, and a non-empty explicit genre is the record's genre whether or
\* not categories are present.
C8_ExplicitValueWins ==
    metadata.done =>
        /\ ("release_year" \in info.has /\ info.release_year # <<>>)
               => metadata.year = info.release_year
        /\ ("genre" \in info.has /\ info.genre # <<>>)
               => metadata.genre = info.genre

(***************************************************************************)
(* Metadata inferred from a file name (add_metadata_to_existing_files)     *)
(***************************************************************************)
MaxStemLen == 5
MaxRootLen == 2

\* The characters of a file name before its extension, and of a folder path
StemChars == {"a", " ", "-", "."}
RootChars == {"a", "/"}

\* The endings of the files os.walk lists
Endings == {<<".", "m", "p", "3">>, <<".", "M", "P", "3">>,
            <<".", "m", "p", "4">>}

\* s.endswith(e)
EndsWith(s, e) ==
    Len(s) >= Len(e) /\ SubSeq(s, Len(s) - Len(e) + 1, Len(s)) = e

\* Line 266: f.lower().endswith('.mp3')
IsMp3(f) == EndsWith(Lower(f), <<".", "m", "p", "3">>)

\* s.rfind(c), counting from 1; 0 when c is not in s
LastIndexOf(s, c) ==
    IF \E k \in 1..Len(s) : s[k] = c
    THEN CHOOSE k \in 1..Len(s) :
             s[k] = c /\ \A m \in (k + 1)..Len(s) : s[m] # c
    ELSE 0

\* Line 278: os.path.splitext(f)[0] of a name without separators: the text
\* before the last dot, unless only dots precede that dot.
SplitExtRoot(f) ==
    LET dot == LastIndexOf(f, ".")
    IN IF dot > 0 /\ \E k \in 1..(dot - 1) : f[k] # "."
       THEN SubSeq(f, 1, dot - 1)
       ELSE f

\* s.find(x), counting from 1; 0 when x is not in s
FirstOccurrence(s, x) ==
    IF IsSubstr(x, s)
    THEN CHOOSE k \in 1..(Len(s) - Len(x) + 1) :
             /\ SubSeq(s, k, k + Len(x) - 1) = x
             /\ \A m \in 1..(k - 1) : SubSeq(s, m, m + Len(x) - 1) # x
    ELSE 0

\* Line 281: s.split(x, 1)
SplitOnce(s, x) ==
    LET k == FirstOccurrence(s, x)
    IN IF k = 0 THEN <<s>>
       ELSE <<SubSeq(s, 1, k - 1), SubSeq(s, k + Len(x), Len(s))>>

\* s.lstrip() and s.rstrip()
RECURSIVE LStrip(_)
LStrip(s) ==
    IF s # <<>> /\ Head(s) \in Whitespace THEN LStrip(Tail(s)) ELSE s

RECURSIVE RStrip(_)
RStrip(s) ==
    IF s # <<>> /\ s[Len(s)] \in Whitespace
    THEN RStrip(SubSeq(s, 1, Len(s) - 1))
    ELSE s

\* s.strip()
Strip(s) == LStrip(RStrip(s))

\* os.path.basename(p): the text after the last separator
Basename(p) == SubSeq(p, LastIndexOf(p, "/") + 1, Len(p))

\* Lines 278-300: the metadata dictionary of one mp3 file in folder r
InferMetadata(r, f) ==
    LET filename_without_ext == SplitExtRoot(f)
        parts == SplitOnce(filename_without_ext, Dash)
    IN [title |-> IF Len(parts) > 1 THEN Strip(parts[2])
                  ELSE Strip(filename_without_ext),
        artist |-> IF Len(parts) > 1 THEN Strip(parts[1]) ELSE Basename(r),
        album |-> Basename(r),
        genre |-> Music]

InitInfer ==
    /\ root \in SeqsUpTo(RootChars, MaxRootLen) \ {<<>>}
    /\ mp3_file \in {st \o e : st \in SeqsUpTo(StemChars, MaxStemLen),
                               e \in Endings}
    /\ inferred = [done |-> FALSE]
    /\ PipeIdle /\ NameIdle /\ MetaIdle /\ HookIdle

\* Line 266: a file that is no mp3 file is not visited
SkipFile ==
    /\ ~inferred.done
    /\ ~IsMp3(mp3_file)
    /\ inferred' = [done |-> TRUE, visited |-> FALSE]
    /\ UNCHANGED <<pipeVars, nameVars, metaVars, hookVars, root, mp3_file>>

\* Lines 272-310: one mp3 file; set_mp3_metadata returns True or False
VisitFile ==
    /\ ~inferred.done
    /\ IsMp3(mp3_file)
    /\ \E ok \in BOOLEAN :
         inferred' = [done |-> TRUE, visited |-> TRUE,
                      record |-> InferMetadata(root, mp3_file),
                      processed |-> IF ok THEN 1 ELSE 0,
                      failed |-> IF ok THEN 0 ELSE 1]
    /\ UNCHANGED <<pipeVars, nameVars, metaVars, hookVars, root, mp3_file>>

NextInfer == SkipFile \/ VisitFile

SpecInfer == InitInfer /\ [][NextInfer]_vars

Visited == inferred.done /\ inferred.visited

\* The name of the folder a path leads to: its last component that is not
\* empty ("a" for "a" and for "a/"; a path of separators only names none)
FolderName(p) ==
    LET solid == {k \in 1..Len(p) : p[k] # "/"}
    IN IF solid = {} THEN <<>>
       ELSE LET last == CHOOSE k \in solid : \A m \in solid : m <= k
                first == CHOOSE k \in 1..last :
                             /\ \A m \in k..last : p[m] # "/"
                             /\ k = 1 \/ p[k - 1] = "/"
            IN SubSeq(p, first, last)

\* C9: for every audio file visited, the record passed to the metadata
\* writer has album = the name of the folder the file is in and genre =
\* "Music", and when the extension-stripped file name holds no " - ", artist
\* is the name of that folder.
C9_AlbumIsFolderName ==
    Visited =>
        LET rec == inferred.record
        IN /\ rec.album = FolderName(root)
           /\ rec.genre = <<"M", "u", "s", "i", "c">>
           /\ ~IsSubstr(Dash, SplitExtRoot(mp3_file))
                  => rec.artist = FolderName(root)

(***************************************************************************)
(* The progress hook (lines 84-97) and the bar of line 166                 *)
(***************************************************************************)
MaxBytes == 6
MaxEvents == 3

\* total=100 of the bar (line 166); also the factor of line 88 and the
\* target of line 97
BarTotal == 100

\* Fractions <<numerator, denominator>>, denominator > 0, in lowest terms;
\* the bar's arithmetic is exact here, the code's is floating point.
RECURSIVE Gcd(_, _)
Gcd(a, b) == IF b = 0 THEN a ELSE Gcd(b, a % b)

Abs(x) == IF x < 0 THEN -x ELSE x

Norm(a, b) ==
    LET g == Gcd(Abs(a), b)
    IN <<a \div g, b \div g>>

RatAdd(x, y) == Norm(x[1] * y[2] + y[1] * x[2], x[2] * y[2])
RatSub(x, y) == Norm(x[1] * y[2] - y[1] * x[2], x[2] * y[2])

\* Line 88: (downloaded_bytes / total_bytes_estimate) * 100
Percentage(downloaded, estimate) == Norm(downloaded * BarTotal, estimate)

\* tqdm's update(delta): n += delta
Update(bar, delta) == [bar EXCEPT !.n = RatAdd(bar.n, delta)]

\* The events the engine gives the hook: 'downloading' with or without an
\* estimate and a speed text, or 'finished'
DownloadingEvents ==
    [status : {"downloading"}, downloaded_bytes : 0..MaxBytes,
     has_estimate : BOOLEAN, total_bytes_estimate : 0..MaxBytes,
     has_speed : BOOLEAN]

\* Lines 84-97: my_hook(d) on the bar
MyHook(bar, d) ==
    IF d.status = "downloading"
    THEN LET moved ==
                 IF d.has_estimate /\ d.total_bytes_estimate > 0
                 THEN Update(bar, RatSub(Percentage(d.downloaded_bytes,
                                                    d.total_bytes_estimate),
                                         bar.n))
                 ELSE bar
         IN IF d.has_speed THEN [moved EXCEPT !.postfix = "speed"] ELSE moved
    ELSE IF d.status = "finished"
         THEN Update(bar, RatSub(<<BarTotal, 1>>, bar.n))
         ELSE bar

InitHook ==
    /\ progress = [n |-> <<0, 1>>, postfix |-> "none"]
    /\ hookStatus = "open"
    /\ hookCalls = 0
    /\ PipeIdle /\ NameIdle /\ MetaIdle /\ InferIdle

\* The engine reports a 'downloading' event
HookDownloading ==
    /\ hookStatus \in {"open", "downloading"}
    /\ hookCalls < MaxEvents
    /\ \E d \in DownloadingEvents :
         /\ ~d.has_estimate => d.total_bytes_estimate = 0
         /\ progress' = MyHook(progress, d)
    /\ hookStatus' = "downloading"
    /\ hookCalls' = hookCalls + 1
    /\ UNCHANGED <<pipeVars, nameVars, metaVars, inferVars>>

\* The engine reports the 'finished' event
HookFinished ==
    /\ hookStatus \in {"open", "downloading"}
    /\ progress' = MyHook(progress, [status |-> "finished"])
    /\ hookStatus' = "finished"
    /\ hookCalls' = hookCalls + 1
    /\ UNCHANGED <<pipeVars, nameVars, metaVars, inferVars>>

NextHook == HookDownloading \/ HookFinished

SpecHook == InitHook /\ [][NextHook]_vars

\* C10: after any sequence of progress events the displayed value is within
\* 0 to 100, and after a 'finished' event it is exactly 100.
C10_ProgressWithinRange ==
    /\ progress.n[1] >= 0
    /\ progress.n[1] <= 100 * progress.n[2]
    /\ hookStatus = "finished" => progress.n = <<100, 1>>

====
